---- MODULE Spec2Model ----
(***************************************************************************)
(* Invoice extraction service (tkhongsap/docs-ai-extraction).              *)
(*                                                                         *)
(* Spec      one request through the FastAPI endpoints of                  *)
(*           server/python_ocr/main.py and the three provider adapters     *)
(*           (openai_ocr.py, mistral_ocr.py, ms_azure_ocr.py).             *)
(* SpecUp    the PDF branch of example/mistral.py (upload, signed URL,     *)
(*           OCR, chat completion, delete).                                *)
(* SpecConc  two concurrent requests that share the upload folder, and two *)
(*           concurrent runs of scripts/simple_llama_wrapper.py.           *)
(* SpecText  the JSON candidate an adapter cuts out of the provider's text *)
(*           (openai_ocr.py 141-166, mistral_ocr.py 312-337).              *)
(* SpecRender  one call of generate_markdown_from_extraction.              *)
(* SpecLlama  one call of process_document of attached_assets/llama_parse.py *)
(*           and the temporary file it creates.                            *)
(* SpecEx    one request to the three endpoints of example/main.py.       *)
(***************************************************************************)
EXTENDS Integers, Sequences, FiniteSets, TLC

VARIABLES
    endpoint,     \* which endpoint of main.py serves the request
    upload,       \* the UploadFile: [size, mime, filename]
    cred,         \* the configured credentials: [key, endpoint]
    pc,           \* position of the handler
    stages,       \* pipeline stages the request has gone through, in order
    files,        \* names written below UPLOAD_FOLDER by this request
    conv,         \* outcome of convert_from_bytes: "none", "raises" or [pages, first, last]
    processed,    \* (processed_content, processed_content_type)
    adapterCalls, \* calls of the adapter's extract_invoice_data
    netCalls,     \* extraction requests sent to the provider
    sent,         \* what the Azure adapter sent: [key, url]
    answer,       \* the provider's answer to the extraction request
    polls,        \* status polls issued by the Azure adapter
    pollLog,      \* the status each poll returned
    raised,       \* the exception raised inside the adapter, if any
    response      \* what the endpoint gives back to the caller

pipeVars == <<endpoint, upload, cred, pc, stages, files, conv, processed,
              adapterCalls, netCalls, sent, answer, polls, pollLog, raised,
              response>>

VARIABLES
    upc,          \* position of extract_invoice_data_mistral
    uinput,       \* its content_type, and whether MISTRAL_API_KEY is set
    store,        \* ids of the files held by the provider's file store
    uploaded,     \* ids this call has uploaded
    deletes,      \* ids this call has issued a delete for
    uresult       \* how the call ended

upVars == <<upc, uinput, store, uploaded, deletes, uresult>>

VARIABLES
    cpc,          \* position of each of the two concurrent requests
    creq,         \* the input of each request
    disk,         \* the shared file system: path -> content
    cread,        \* what each request's subprocess read from the script path
    cresult       \* the result each request returned

concVars == <<cpc, creq, disk, cread, cresult>>

VARIABLES
    tpc,          \* position in the candidate extraction of an adapter
    raw_content,  \* the provider's text, a sequence of characters
    candidate,    \* the candidate text (result), as the adapter rewrites it
    rpc,          \* position of a call of the report renderer
    rdata,        \* the record passed to generate_markdown_from_extraction
    rendered      \* what the call gave: the lines, or the exception

VARIABLES
    lpc,            \* position of process_document
    source,         \* its argument: bytes, a URL, or something else
    api_keys,       \* whether LLAMA_CLOUD_API_KEY and OPENAI_API_KEY are set
    tempdir,        \* the temporary files that exist on disk
    temp_file_path, \* the local temp_file_path: <<>> while it is not bound
    originals,      \* the files copied to uploads/original
    lresult         \* the status process_document returned

VARIABLES
    xpc,             \* example server: position of the request in its handler
    route,           \* example server: the path the upload was posted to
    file,            \* example server: the UploadFile (size, content_type, filename)
    origin_folder,   \* example server: names of the files written under origin/
    provider_calls,  \* example server: calls made to intel_main or an extract function
    xresponse        \* example server: the HTTP answer

textVars == <<tpc, raw_content, candidate>>
renderVars == <<rpc, rdata, rendered>>
llamaVars == <<lpc, source, api_keys, tempdir, temp_file_path, originals, lresult>>
exVars == <<xpc, route, file, origin_folder, provider_calls, xresponse>>
pureVars == <<textVars, renderVars, llamaVars, exVars>>

vars == <<pipeVars, upVars, concVars, pureVars>>

----------------------------------------------------------------------------
(* Bounds of the model *)

MaxPages == 3

----------------------------------------------------------------------------
(* JSON values, as Python holds them after json.loads: tagged by type.     *)

\* A string is the sequence of its text parts; the empty string has none.
Text(parts) == [t |-> "str", v |-> parts]
S(x) == IF x = "" THEN Text(<<>>) ELSE Text(<<x>>)
N(x) == [t |-> "num", v |-> x]
L(x) == [t |-> "list", v |-> x]
O(x) == [t |-> "obj", v |-> x]
None == [t |-> "null", v |-> "None"]

\* dict.get(key, default)
Get(d, k, default) == IF k \in DOMAIN d THEN d[k] ELSE default

\* d[k] = value when k is not in d (the "if k not in d: d[k] = ..." idiom)
SetDefault(d, k, value) == IF k \in DOMAIN d THEN d ELSE d @@ (k :> value)

\* Python truthiness of a JSON value
Truthy(x) ==
    CASE x.t = "null" -> FALSE
      [] x.t = "str"  -> Len(x.v) > 0
      [] x.t = "num"  -> x.v # 0
      [] x.t = "list" -> Len(x.v) > 0
      [] x.t = "obj"  -> DOMAIN x.v # {}
      [] OTHER        -> TRUE

\* An exception: its class and str(e)
Exc(type, msg) == [type |-> type, msg |-> msg]
NoExc == Exc("none", "")

\* An f-string "<prefix>{str(e)}": the text parts, in order
Fmt(prefix, msg) == Text(<<prefix, msg>>)
Mentions(text, msg) == text.t = "str" /\ \E i \in 1..Len(text.v) : text.v[i] = msg

\* str(x), as an f-string prints a value
Str(x) ==
    CASE x.t = "str"  -> x.v
      [] x.t = "num"  -> <<ToString(x.v)>>
      [] x.t = "null" -> <<"None">>
      [] OTHER        -> <<"<repr>">>

----------------------------------------------------------------------------
(* Report renderer: generate_markdown_from_extraction (the same text in    *)
(* mistral_ocr.py and ms_azure_ocr.py).  A line is the sequence of its     *)
(* text parts.                                                             *)

\* "<value> if <value> else 'N/A'"
OrNA(x) == IF Truthy(x) THEN Str(x) ELSE <<"N/A">>

RECURSIVE BeforeT(_)
\* date.split("T")[0].replace("-", "/")
BeforeT(parts) ==
    IF parts = <<>> \/ Head(parts) = "T" THEN <<>>
    ELSE <<IF Head(parts) = "-" THEN "/" ELSE Head(parts)>> \o BeforeT(Tail(parts))

\* the date shown in Invoice Details
DateStr(d) ==
    IF ~Truthy(d) THEN <<"N/A">>
    ELSE IF d.t = "str" /\ (\E i \in 1..Len(d.v) : d.v[i] = "T") THEN BeforeT(d.v)
    ELSE Str(d)

\* a total: data.get(key, "N/A") printed with str()
TotalStr(data, k) == IF k \in DOMAIN data THEN Str(data[k]) ELSE <<"N/A">>

\* item.get(...) raises AttributeError on an entry that is no dict, and
\* len(...) or the loop raises on a value that is no list
RenderRaises(data) ==
    LET items == Get(data, "lineItems", L(<<>>))
        notes == Get(data, "handwrittenNotes", L(<<>>))
        Bad(x) == /\ Truthy(x)
                  /\ \/ x.t # "list"
                     \/ \E i \in 1..Len(x.v) : x.v[i].t # "obj"
    IN  Bad(items) \/ Bad(notes)

ItemRow(item) ==
    <<"| ">> \o Str(Get(item.v, "description", S(""))) \o <<" | ">>
             \o Str(Get(item.v, "quantity", S(""))) \o <<" | ">>
             \o Str(Get(item.v, "unitPrice", S(""))) \o <<" | ">>
             \o Str(Get(item.v, "amount", S(""))) \o <<" |">>

generate_markdown_from_extraction(data) ==
    LET items == Get(data, "lineItems", L(<<>>))
        notes == Get(data, "handwrittenNotes", L(<<>>))
    IN  << <<"# Invoice Extraction Result">>, <<>>,
           <<"## Vendor Information">>,
           <<"- **Vendor Name**: ">> \o OrNA(Get(data, "vendorName", S(""))),
           <<"- **Vendor Address**: ">> \o OrNA(Get(data, "vendorAddress", S(""))),
           <<"- **Vendor Contact**: ">> \o OrNA(Get(data, "vendorContact", S(""))),
           <<>>,
           <<"## Invoice Details">>,
           <<"- **Invoice Number**: ">> \o OrNA(Get(data, "invoiceNumber", S(""))),
           <<"- **Invoice Date**: ">> \o DateStr(Get(data, "invoiceDate", None)),
           <<"- **Due Date**: ">> \o DateStr(Get(data, "dueDate", None)),
           <<>>,
           <<"## Line Items">>, <<>> >>
        \o (IF Truthy(items)
            THEN << <<"| Description | Quantity | Unit Price | Amount |">>,
                    <<"| ----------- | -------- | ---------- | ------ |">> >>
                 \o [i \in 1..Len(items.v) |-> ItemRow(items.v[i])]
            ELSE << <<"No line items found.">> >>)
        \o << <<>>,
              <<"## Totals">>,
              <<"- **Subtotal**: ">> \o TotalStr(data, "subtotalAmount"),
              <<"- **Tax**: ">> \o TotalStr(data, "taxAmount"),
              <<"- **Discount**: ">> \o TotalStr(data, "discountAmount"),
              <<"- **Total**: ">> \o TotalStr(data, "totalAmount") >>
        \o (IF Truthy(notes)
            THEN << <<>>, <<"## Handwritten Notes">> >>
                 \o [i \in 1..Len(notes.v) |->
                       <<ToString(i), ". ">> \o Str(Get(notes.v[i].v, "text", S("")))]
            ELSE <<>>)

\* the markdownOutput value: the rendered lines, as a JSON string
Markdown(data) == [t |-> "md", v |-> generate_markdown_from_extraction(data)]

----------------------------------------------------------------------------
(* Inputs of a request and answers of a provider *)

Endpoints == {"openai", "mistral", "azure"}
MimeTypes == {"application/pdf", "image/png"}
Filenames == {"inv.pdf", "INV.PDF", "scan.png", "scan"}
Times     == {"t1", "t2"}      \* values of datetime.now().isoformat()

\* file.filename.split('.')[-1].lower() if '.' in file.filename else ''
FileExt(name) ==
    CASE name = "inv.pdf"  -> "pdf"
      [] name = "INV.PDF"  -> "pdf"
      [] name = "scan.png" -> "png"
      [] OTHER             -> ""

\* os.path.splitext(file.filename)[0]
Stem(name) ==
    CASE name = "inv.pdf"  -> "inv"
      [] name = "INV.PDF"  -> "INV"
      [] name = "scan.png" -> "scan"
      [] OTHER             -> name

\* What the candidate text of an answer decodes to (json.loads).
FullInvoice ==
    [vendorName |-> S("Acme"), invoiceNumber |-> S("INV-1"), totalAmount |-> N(100)]
PartialInvoice ==
    [vendorAddress |-> S("1 Road"),
     invoiceDate |-> Text(<<"2024", "-", "01", "-", "15">>),
     lineItems |-> L(<<O([description |-> S("Pen"), quantity |-> N(2)])>>)]
BadItemsInvoice ==
    [vendorName |-> S("Acme"), lineItems |-> L(<<S("Pen")>>)]
NullInvoice ==
    [vendorName |-> None, invoiceNumber |-> S("INV-2"), totalAmount |-> N(5),
     currency |-> None]
NegativeInvoice ==
    [vendorName |-> S("Acme"), invoiceNumber |-> S("INV-3"), totalAmount |-> N(-5)]
PricedInvoice ==
    [vendorName |-> S("Acme"), invoiceNumber |-> S("INV-4"), totalAmount |-> N(100),
     lineItems |-> L(<<O([description |-> S("Pen"),
                          unitPrice |-> Text(<<"$", "1", ",", "234", ".", "50">>)])>>)]
Decodings ==
    {[ok |-> FALSE, val |-> None],
     [ok |-> TRUE, val |-> O(FullInvoice)],
     [ok |-> TRUE, val |-> O(PartialInvoice)],
     [ok |-> TRUE, val |-> O(BadItemsInvoice)],
     [ok |-> TRUE, val |-> O(NullInvoice)],
     [ok |-> TRUE, val |-> O(NegativeInvoice)],
     [ok |-> TRUE, val |-> O(PricedInvoice)],
     [ok |-> TRUE, val |-> L(<<>>)]}

TextAnswers == {[kind |-> "text", exc |-> NoExc, decoded |-> d] : d \in Decodings}
Failure(kind, type, msg) ==
    [kind |-> kind, exc |-> Exc(type, msg), decoded |-> [ok |-> FALSE, val |-> None]]

\* outcomes of openai.chat.completions.create
OpenAIAnswers ==
    TextAnswers \cup
    {Failure("exception", "Timeout", "Request timeout"),
     Failure("exception", "APIConnectionError", "Connection error."),
     Failure("exception", "RateLimitError", "Rate limit reached"),
     Failure("exception", "APIError", "Bad request"),
     Failure("exception", "Exception", "unexpected"),
     Failure("empty", "none", "")}

\* outcomes of requests.post to the Mistral chat completions URL
MistralAnswers ==
    TextAnswers \cup
    {Failure("exception", "Timeout", "Read timed out"),
     Failure("exception", "ConnectionError", "Connection refused"),
     Failure("exception", "Exception", "unexpected"),
     Failure("status", "ValueError", "Mistral API error - Status code: 500"),
     Failure("badBody", "ValueError", "Failed to parse Mistral response as JSON"),
     Failure("noChoices", "ValueError",
             "Invalid response from Mistral API: No choices in response"),
     Failure("empty", "none", "")}

\* What an adapter hands back: an exception, or a value.
Raised(e)   == [raises |-> TRUE, exc |-> e, value |-> None, stages |-> <<>>]
Returned(x, st) == [raises |-> FALSE, exc |-> NoExc, value |-> x, stages |-> st]

\* json.dumps(d): a text that json.loads turns back into d
JsonDumps(d) == [t |-> "json", v |-> d]

----------------------------------------------------------------------------
(* Vision-LLM adapter: openai_ocr.extract_invoice_data *)

OpenAIMissingKey == "OpenAI API key not found in environment variables"

OpenAIErr(vendor, number, err) ==
    [vendorName |-> S(vendor), invoiceNumber |-> S(number), totalAmount |-> N(0),
     lineItems |-> L(<<>>), handwrittenNotes |-> L(<<>>), error |-> err]

\* "for field in missing_fields: ..." and the two list defaults
RequiredDefaults(parsed) ==
    SetDefault(SetDefault(SetDefault(SetDefault(SetDefault(parsed,
        "vendorName", S("Unknown")),
        "invoiceNumber", S("Unknown")),
        "totalAmount", N(0)),
        "lineItems", L(<<>>)),
        "handwrittenNotes", L(<<>>))

\* the candidate is decoded and given its defaults
OpenAIParse(dec) ==
    IF ~dec.ok
    THEN Returned(JsonDumps(OpenAIErr("Could not extract vendor name", "Unknown",
             Fmt("Failed to parse JSON from OpenAI response: ", "JSONDecodeError"))),
             <<"extract">>)
    ELSE IF dec.val.t # "obj"
    THEN Returned(JsonDumps(OpenAIErr("", "",
             Fmt("Error processing document with OpenAI: ", "TypeError"))),
             <<"extract">>)
    ELSE Returned(JsonDumps(RequiredDefaults(dec.val.v)), <<"extract", "normalize">>)

\* the body of extract_invoice_data once the request has been sent
OpenAIAfterCall(ans) ==
    CASE ans.kind = "text" -> OpenAIParse(ans.decoded)
      [] ans.kind = "empty" ->
           Returned(JsonDumps(OpenAIErr("Could not extract vendor name", "Unknown",
               S("Empty response from OpenAI"))), <<>>)
      [] ans.kind = "exception" /\ ans.exc.type = "Timeout" ->
           Returned(JsonDumps(OpenAIErr("", "",
               Text(<<"OpenAI API request timed out after ", "60", " seconds">>))), <<>>)
      [] ans.kind = "exception" /\ ans.exc.type = "APIConnectionError" ->
           Returned(JsonDumps(OpenAIErr("", "",
               Fmt("Failed to connect to OpenAI API: ", ans.exc.msg))), <<>>)
      [] ans.kind = "exception" /\ ans.exc.type = "RateLimitError" ->
           Returned(JsonDumps(OpenAIErr("", "",
               S("OpenAI API rate limit exceeded. Please try again later."))), <<>>)
      [] ans.kind = "exception" /\ ans.exc.type = "APIError" ->
           Returned(JsonDumps(OpenAIErr("", "",
               Fmt("OpenAI API error: ", ans.exc.msg))), <<>>)
      [] OTHER ->
           Returned(JsonDumps(OpenAIErr("", "",
               Fmt("Error processing document with OpenAI: ", ans.exc.msg))), <<>>)

----------------------------------------------------------------------------
(* OCR+LLM adapter of the server: mistral_ocr.extract_invoice_data *)

MistralMissingKey == "Mistral API key not found in environment variables"

DefaultConfidence ==
    O([overall |-> N(80), vendorInfo |-> N(80), invoiceDetails |-> N(80),
       lineItems |-> N(80), totals |-> N(80), handwrittenNotes |-> N(50),
       fieldSpecific |-> O(<<>>)])

\* "x[markdownOutput] = generate_markdown_from_extraction(x)"
WithMarkdown(rec) == rec @@ ("markdownOutput" :> Markdown(rec))

\* the error_response every failure branch of the adapter builds
MistralErrorRecord(err, now) ==
    WithMarkdown(
      [vendorName |-> S(""), vendorAddress |-> S(""), vendorContact |-> S(""),
       clientName |-> S(""), clientAddress |-> S(""), invoiceNumber |-> S(""),
       totalAmount |-> N(0), currency |-> S(""), paymentTerms |-> S(""),
       paymentMethod |-> S(""), lineItems |-> L(<<>>), handwrittenNotes |-> L(<<>>),
       additionalInfo |-> S(""), confidenceScores |-> DefaultConfidence,
       layoutData |-> L(<<>>),
       processingMetadata |->
           O([ocrEngine |-> S("mistral"), processingTime |-> N(0),
              processingTimestamp |-> S(now), documentClassification |-> S("invoice"),
              error |-> err])])

\* standardized_response, before its markdown is added
MistralStandard(parsed, now) ==
    [vendorName |-> Get(parsed, "vendorName", S("")),
     vendorAddress |-> Get(parsed, "vendorAddress", S("")),
     vendorContact |-> Get(parsed, "vendorContact", S("")),
     clientName |-> Get(parsed, "clientName", S("")),
     clientAddress |-> Get(parsed, "clientAddress", S("")),
     invoiceNumber |-> Get(parsed, "invoiceNumber", S("")),
     invoiceDate |-> Get(parsed, "invoiceDate", None),
     dueDate |-> Get(parsed, "dueDate", None),
     totalAmount |-> Get(parsed, "totalAmount", N(0)),
     subtotalAmount |-> Get(parsed, "subtotalAmount", N(0)),
     taxAmount |-> Get(parsed, "taxAmount", N(0)),
     currency |-> Get(parsed, "currency", S("")),
     paymentTerms |-> Get(parsed, "paymentTerms", S("")),
     paymentMethod |-> Get(parsed, "paymentMethod", S("")),
     lineItems |-> Get(parsed, "lineItems", L(<<>>)),
     handwrittenNotes |-> Get(parsed, "handwrittenNotes", L(<<>>)),
     additionalInfo |-> Get(parsed, "additionalInfo", S("")),
     confidenceScores |-> DefaultConfidence,
     layoutData |-> L(<<>>),
     processingMetadata |->
         O([ocrEngine |-> S("mistral"), processingTime |-> N(0),
            processingTimestamp |-> S(now), documentClassification |-> S("invoice")])]

\* the candidate is decoded, standardized and rendered
MistralParse(dec, now) ==
    IF ~dec.ok
    THEN Returned(JsonDumps(MistralErrorRecord(
             Fmt("Failed to parse JSON from Mistral response: ", "JSONDecodeError"), now)),
             <<"extract", "render">>)
    ELSE IF dec.val.t # "obj"
    THEN Returned(JsonDumps(MistralErrorRecord(
             Fmt("Mistral API error: ", "TypeError"), now)),
             <<"extract", "render">>)
    ELSE IF RenderRaises(MistralStandard(RequiredDefaults(dec.val.v), now))
    THEN Returned(JsonDumps(MistralErrorRecord(
             Fmt("Mistral API error: ", "AttributeError"), now)),
             <<"extract", "normalize", "render">>)
    ELSE Returned(JsonDumps(WithMarkdown(
             MistralStandard(RequiredDefaults(dec.val.v), now))),
             <<"extract", "normalize", "render">>)

\* the body of extract_invoice_data once the request has been sent
MistralAfterCall(ans, now) ==
    CASE ans.kind = "text" -> MistralParse(ans.decoded, now)
      [] ans.kind = "empty" ->
           Returned(JsonDumps(MistralErrorRecord(
               S("Empty response from Mistral AI"), now)), <<"render">>)
      [] ans.kind = "exception" /\ ans.exc.type = "Timeout" ->
           Returned(JsonDumps(MistralErrorRecord(
               S("Mistral API request timed out after 30 seconds"), now)),
               <<"render">>)
      [] ans.kind = "exception" /\ ans.exc.type = "ConnectionError" ->
           Returned(JsonDumps(MistralErrorRecord(
               S("Failed to connect to Mistral API: connection error"), now)),
               <<"render">>)
      [] OTHER ->
           Returned(JsonDumps(MistralErrorRecord(
               Fmt("Mistral API error: ", ans.exc.msg), now)), <<"render">>)

----------------------------------------------------------------------------
(* Managed adapter: ms_azure_ocr.extract_invoice_data *)

max_retries == 10

\* Configured strings, as sequences of tokens.
AzureKeys == {<<>>, <<"key">>, <<"https://", "host">>}
AzureEndpoints ==
    {<<>>, <<"https://", "host">>, <<"https://", "host", "/">>,
     <<"http://", "host">>, <<"key">>}

StartsWith(s, tokens) == Len(s) > 0 /\ s[1] \in tokens
EndsWithSlash(s) == Len(s) > 0 /\ s[Len(s)] = "/"

AzureMissingKey ==
    "Azure Document Intelligence key not found in environment variables"
AzureMissingEndpoint ==
    "Azure Document Intelligence endpoint not found in environment variables"

\* The checks before the request is sent.  before: the exception is raised
\* ahead of the try block; otherwise it is raised inside it.
AzureConfig(key, ep) ==
    LET ep1 == IF EndsWithSlash(ep) THEN ep ELSE ep \o <<"/">>
        keyIsUrl == StartsWith(key, {"http://", "https://"})
        swap == keyIsUrl /\ ~StartsWith(ep1, {"http://", "https://"})
        key2 == IF swap THEN ep1 ELSE key
        ep2  == IF swap THEN key ELSE ep1
        fail(b, m) == [ok |-> FALSE, before |-> b, exc |-> Exc("ValueError", m),
                       key |-> <<>>, url |-> <<>>]
    IN  IF key = <<>> THEN fail(TRUE, AzureMissingKey)
        ELSE IF ep = <<>> THEN fail(TRUE, AzureMissingEndpoint)
        ELSE IF keyIsUrl /\ ~swap
        THEN fail(FALSE, "Azure Document Intelligence key appears to be a URL instead of an API key")
        ELSE IF ~StartsWith(ep2, {"https://"})
        THEN fail(FALSE, "Azure Document Intelligence endpoint must be a valid HTTPS URL")
        ELSE [ok |-> TRUE, before |-> FALSE, exc |-> NoExc, key |-> key2,
              url |-> ep2 \o <<"documentintelligence/documentModels/prebuilt-invoice:analyze">>]

\* The except block of the adapter builds its error response with the name
\* null, which Python does not define: the block itself raises NameError.
AzureExceptBlock(e) == Exc("NameError", "name 'null' is not defined")

\* outcomes of the analyze POST
SubmitOutcomes == {"accepted", "noOperationLocation", "rejected", "raises"}
SubmitError(o) ==
    CASE o = "noOperationLocation" -> Exc("ValueError", "No Operation-Location header in response")
      [] o = "rejected" -> Exc("ValueError", "Azure Document Intelligence request failed with status 401")
      [] OTHER -> Exc("ConnectionError", "Connection refused")

\* outcomes of one status poll; "raises": requests.get or .json() raises
PollOutcomes == {"running", "succeeded", "failed", "raises"}
TimedOut == Exc("ValueError", "Azure Document Intelligence analysis timed out")
AnalysisFailed == Exc("ValueError", "Azure Document Intelligence analysis failed: Unknown error")
PollRaised == Exc("ConnectionError", "poll failed")

\* format_currency
format_currency(x) ==
    IF ~Truthy(x) THEN None
    ELSE IF x.t = "num" THEN N(IF x.v < 0 THEN -x.v ELSE x.v)
    ELSE None

\* analysis results: the fields of the first document
AzureFieldSets ==
    {[VendorName |-> [valueString |-> S("Acme")],
      InvoiceId |-> [valueString |-> S("INV-1")],
      InvoiceDate |-> [valueDate |-> Text(<<"2024", "-", "01", "-", "15">>)],
      InvoiceTotal |-> [valueCurrency |-> [amount |-> N(100), currencyCode |-> S("THB")]]],
     [VendorName |-> [valueString |-> S("")],
      InvoiceTotal |-> [valueCurrency |-> [amount |-> N(-5), currencyCode |-> S("")]]]}
AzureResults ==
    {[shape |-> "analyzed", fields |-> f] : f \in AzureFieldSets}
    \cup {[shape |-> "noAnalyzeResult", fields |-> <<>>],
          [shape |-> "noDocuments", fields |-> <<>>]}

StringField(fields, name, key, default) ==
    IF name \in DOMAIN fields /\ key \in DOMAIN fields[name] /\ Truthy(fields[name][key])
    THEN fields[name][key] ELSE default

CurrencyField(fields, name, default) ==
    IF name \in DOMAIN fields /\ "valueCurrency" \in DOMAIN fields[name]
    THEN format_currency(fields[name].valueCurrency.amount) ELSE default

\* extracted_data: the field tree mapped to the internal record
AzureExtracted(fields) ==
    [vendorName |-> StringField(fields, "VendorName", "valueString", S("")),
     vendorAddress |-> StringField(fields, "VendorAddress", "valueString", S("")),
     vendorContact |-> S(""),
     clientName |-> StringField(fields, "CustomerName", "valueString", S("")),
     clientAddress |-> StringField(fields, "CustomerAddress", "valueString", S("")),
     invoiceNumber |-> StringField(fields, "InvoiceId", "valueString", S("")),
     invoiceDate |-> StringField(fields, "InvoiceDate", "valueDate", None),
     dueDate |-> StringField(fields, "DueDate", "valueDate", None),
     totalAmount |-> CurrencyField(fields, "InvoiceTotal", N(0)),
     subtotalAmount |-> CurrencyField(fields, "SubTotal", N(0)),
     taxAmount |-> CurrencyField(fields, "TotalTax", N(0)),
     currency |-> IF "InvoiceTotal" \in DOMAIN fields
                  THEN StringField(fields.InvoiceTotal, "valueCurrency", "currencyCode", S("USD"))
                  ELSE S("USD"),
     lineItems |-> L(<<>>),
     handwrittenNotes |-> L(<<>>)]

Amount(x) == O([value |-> O([amount |-> IF Truthy(x) THEN x ELSE N(0),
                             currency_symbol |-> None])])

\* standardized_response[0], with the markdown of the internal record
AzureStandardized(ed) ==
    [vendor_name |-> O([value |-> ed.vendorName]),
     vendor_address |-> O([value |-> ed.vendorAddress]),
     vendor_address_recipient |-> O([value |-> ed.vendorContact]),
     customer_name |-> O([value |-> ed.clientName]),
     customer_address |-> O([value |-> ed.clientAddress]),
     invoice_id |-> O([value |-> ed.invoiceNumber]),
     invoice_date |-> O([value |-> ed.invoiceDate]),
     invoice_total |-> Amount(ed.totalAmount),
     due_date |-> IF Truthy(ed.dueDate) THEN O([value |-> ed.dueDate]) ELSE None,
     items |-> L(<<>>),
     subtotal |-> Amount(ed.subtotalAmount),
     total_tax |-> Amount(ed.taxAmount),
     status |-> S("success"),
     markdownOutput |-> Markdown(ed),
     auto_navigation |-> S("True")]

\* the rest of the try block once a poll has returned succeeded
AzureAfterPolling(result) ==
    IF result.shape = "noDocuments"
    THEN Raised(AzureExceptBlock(Exc("IndexError", "list index out of range")))
    ELSE Returned(L(<<O(AzureStandardized(AzureExtracted(result.fields)))>>),
                  <<"normalize", "render">>)

----------------------------------------------------------------------------
(* The endpoints of server/python_ocr/main.py *)

HttpError(status, detail) == [kind |-> "http", status |-> status, body |-> [detail |-> detail]]
Json(body) == [kind |-> "record", status |-> 200, body |-> body]
NoResponse == [kind |-> "none", status |-> 0, body |-> <<>>]

ServiceLabel(ep) == IF ep = "openai" THEN "OpenAI" ELSE "Mistral"

\* error_response of /openai-ocr and /mistral-ocr
ServiceError(ep, e) ==
    [vendorName |-> S("Error occurred"), invoiceNumber |-> S("Error"),
     totalAmount |-> N(0), currency |-> S("Unknown"), lineItems |-> L(<<>>),
     handwrittenNotes |-> L(<<>>),
     error |-> Text(<<ServiceLabel(ep), " OCR service error: ", e.msg>>),
     status |-> S("error"), confidence |-> N(0)]

\* default_response of /openai-ocr and /mistral-ocr: the adapter's text is no JSON
DefaultResponse(ep, text) ==
    [vendorName |-> S("Could not extract vendor name"), invoiceNumber |-> S("Unknown"),
     totalAmount |-> N(0), lineItems |-> L(<<>>), handwrittenNotes |-> L(<<>>),
     error |-> Text(<<"Failed to parse ", ServiceLabel(ep), " response: ", "JSONDecodeError">>),
     rawText |-> text]

\* (mutant) the inner try block without its "except Exception": what the
\* adapter raises reaches the outer handler and becomes HTTP 500
TextEndpointNoCatch(ep, ret) ==
    IF ret.raises THEN HttpError(500, Fmt("Error: ", ret.exc.msg))
    ELSE IF ret.value.t = "json" THEN Json(ret.value.v)
    ELSE Json(DefaultResponse(ep, ret.value))

\* the inner try block of process_with_openai / process_with_mistral
TextEndpoint(ep, ret) ==
    IF ret.raises THEN Json(ServiceError(ep, ret.exc))
    ELSE IF ret.value.t = "json" THEN Json(ret.value.v)
    ELSE Json(DefaultResponse(ep, ret.value))

AzureErrorMetadata(msg, now) ==
    O([ocrEngine |-> S("ms-document-intelligence"), processingTime |-> N(0),
       processingTimestamp |-> S(now), documentClassification |-> S("error"),
       error |-> msg])

\* error_response of /ms-azure-ocr
AzureServiceError(e, now) ==
    [documentInfo |->
         O([vendor |-> S("Error occurred"), vendorAddress |-> S(""),
            vendorContact |-> S(""), client |-> S(""), clientAddress |-> S(""),
            invoiceNumber |-> S("Error"), invoiceDate |-> None, dueDate |-> None,
            totalAmount |-> N(0), subtotalAmount |-> None, taxAmount |-> None,
            currency |-> S("Unknown"), paymentTerms |-> S(""), paymentMethod |-> S("")]),
     lineItems |-> L(<<>>), handwrittenNotes |-> L(<<>>),
     additionalInfo |-> Fmt("Azure OCR service error: ", e.msg),
     metadata |-> AzureErrorMetadata(Fmt("Azure OCR service error: ", e.msg), now),
     confidenceScores |->
         O([overall |-> N(0), vendorInfo |-> N(0), invoiceDetails |-> N(0),
            lineItems |-> N(0), totals |-> N(0), handwrittenNotes |-> N(0),
            fieldSpecific |-> O(<<>>)])]

\* the response for a value that is no list, dict or str
AzureUnexpected(now) ==
    [documentInfo |->
         O([vendor |-> S("Error in Azure processing"), invoiceNumber |-> S("Unknown"),
            totalAmount |-> N(0)]),
     lineItems |-> L(<<>>), handwrittenNotes |-> L(<<>>),
     additionalInfo |-> S("Unexpected response type from Azure OCR module"),
     metadata |-> AzureErrorMetadata(S("Unexpected response type from Azure OCR module"), now)]

\* azure_data.get(k, {}).get("value", "") if azure_data.get(k) else default
ValueOf(d, k, default) ==
    IF k \in DOMAIN d /\ Truthy(d[k]) THEN Get(d[k].v, "value", S("")) ELSE default

\* azure_data.get(k, {}).get("value", {}).get(sub, default) if ... else default
AmountOf(d, k, sub, default) ==
    IF k \in DOMAIN d /\ Truthy(d[k]) /\ Truthy(Get(d[k].v, "value", None))
    THEN Get(d[k].v.value.v, sub, default) ELSE default

\* standard_response: the adapter's first invoice in the application's format
AzureConverted(d, now) ==
    LET base ==
        [vendorName |-> ValueOf(d, "vendor_name", S("")),
         vendorAddress |-> ValueOf(d, "vendor_address", S("")),
         vendorContact |-> ValueOf(d, "vendor_address_recipient", S("")),
         clientName |-> ValueOf(d, "customer_name", S("")),
         clientAddress |-> ValueOf(d, "customer_address", S("")),
         invoiceNumber |-> ValueOf(d, "invoice_id", S("")),
         invoiceDate |-> ValueOf(d, "invoice_date", None),
         dueDate |-> ValueOf(d, "due_date", None),
         totalAmount |-> AmountOf(d, "invoice_total", "amount", N(0)),
         subtotalAmount |-> AmountOf(d, "subtotal", "amount", N(0)),
         taxAmount |-> AmountOf(d, "total_tax", "amount", N(0)),
         currency |-> AmountOf(d, "invoice_total", "currency_symbol", S("")),
         paymentTerms |-> S(""), paymentMethod |-> S(""),
         lineItems |-> L(<<>>), handwrittenNotes |-> L(<<>>),
         additionalInfo |-> S(""),
         processingMetadata |->
             O([ocrEngine |-> S("ms-document-intelligence"), processingTime |-> N(0),
                processingTimestamp |-> S(now), documentClassification |-> S("invoice")]),
         confidenceScores |-> DefaultConfidence]
    IN  IF "markdownOutput" \in DOMAIN d
        THEN base @@ ("markdownOutput" :> d.markdownOutput) ELSE base

\* (mutant) process_with_azure without its inner "except Exception"
AzureEndpointNoCatch(ret, now) ==
    IF ret.raises THEN HttpError(500, Fmt("Error: ", ret.exc.msg))
    ELSE IF ret.value.t = "list" /\ Len(ret.value.v) > 0
    THEN Json(AzureConverted(ret.value.v[1].v, now))
    ELSE IF ret.value.t = "obj" THEN Json(SetDefault(ret.value.v, "status", S("success")))
    ELSE Json(AzureUnexpected(now))

\* the inner try block of process_with_azure
AzureEndpoint(ret, now) ==
    IF ret.raises THEN Json(AzureServiceError(ret.exc, now))
    ELSE IF ret.value.t = "list" /\ Len(ret.value.v) > 0
    THEN Json(AzureConverted(ret.value.v[1].v, now))
    ELSE IF ret.value.t = "obj" THEN Json(SetDefault(ret.value.v, "status", S("success")))
    ELSE Json(AzureUnexpected(now))

----------------------------------------------------------------------------
(* One request through an endpoint of main.py *)

IsPdf(u) == u.mime = "application/pdf" \/ FileExt(u.filename) = "pdf"

Min(a, b) == IF a < b THEN a ELSE b

\* a conversion that ignores last_page and rasterizes every page
convert_every_page(n, first_page, last_page) ==
    [i \in 1..(n - first_page + 1) |-> first_page + i - 1]

\* pdf2image.convert_from_bytes(pdf, first_page, last_page) on a PDF of n
\* pages: the pages it rasterizes, in order
convert_from_bytes(n, first_page, last_page) ==
    [i \in 1..(Min(last_page, n) - first_page + 1) |-> first_page + i - 1]

\* images[0].save(temp_path, 'PNG'), read back as processed_content
FirstImage(images) ==
    <<"png">> \o (IF Len(images) > 0 THEN <<images[1]>> ELSE <<>>)

NoConv == [raises |-> FALSE, pages |-> 0, images |-> <<>>, done |-> FALSE]

CredsFor(ep) ==
    IF ep = "azure"
    THEN {[key |-> k, endpoint |-> e] : k \in AzureKeys, e \in AzureEndpoints}
    ELSE {[key |-> k, endpoint |-> <<>>] : k \in {<<>>, <<"key">>}}

UpIdle ==
    /\ upc = "idle" /\ uinput = [content_type |-> "image/png", key |-> FALSE]
    /\ store = {} /\ uploaded = {} /\ deletes = {}
    /\ uresult = [kind |-> "none", at |-> "", text |-> ""]

ConcIdle ==
    /\ cpc = <<"idle", "idle">> /\ creq = <<"none", "none">> /\ disk = <<>>
    /\ cread = <<"none", "none">> /\ cresult = <<<<"none">>, <<"none">>>>

ExIdle ==
    /\ xpc = "idle" /\ route = "none" /\ file = [size |-> 0, mime |-> "", filename |-> ""]
    /\ origin_folder = {} /\ provider_calls = 0 /\ xresponse = NoResponse

LlamaIdle ==
    /\ lpc = "idle" /\ source = "none" /\ api_keys = [llama |-> FALSE, openai |-> FALSE]
    /\ tempdir = {} /\ temp_file_path = <<>> /\ originals = {} /\ lresult = "none"

PureIdle ==
    /\ tpc = "idle" /\ raw_content = <<>> /\ candidate = <<>>
    /\ rpc = "idle" /\ rdata = <<>> /\ rendered = [raises |-> FALSE, lines |-> <<>>]
    /\ LlamaIdle
    /\ ExIdle

Init ==
    /\ endpoint \in Endpoints
    /\ upload \in [size : {0, 1}, mime : MimeTypes, filename : Filenames]
    /\ cred \in CredsFor(endpoint)
    /\ pc = "Received"
    /\ stages = <<>>
    /\ files = {}
    /\ conv = NoConv
    /\ processed = [content |-> <<>>, mime |-> ""]
    /\ adapterCalls = 0
    /\ netCalls = 0
    /\ sent = [key |-> <<>>, url |-> <<>>]
    /\ answer = Failure("none", "none", "")
    /\ polls = 0
    /\ pollLog = <<>>
    /\ raised = NoExc
    /\ response = NoResponse
    /\ UpIdle /\ ConcIdle /\ PureIdle

\* lines 99-108, 213-222, 332-341: read the upload, refuse an empty one, store it
ReadUpload ==
    /\ pc = "Received"
    /\ IF upload.size = 0
       THEN /\ response' = HttpError(400, S("Empty file"))
            /\ pc' = "Done"
            /\ UNCHANGED files
       ELSE \E stored \in BOOLEAN :
              IF stored
              THEN /\ files' = files \cup {<<upload.filename>>}
                   /\ pc' = "Stored"
                   /\ UNCHANGED response
              ELSE /\ response' = HttpError(500, Fmt("Error: ", "OSError"))
                   /\ pc' = "Done"
                   /\ UNCHANGED files
    /\ UNCHANGED <<endpoint, upload, cred, stages, conv, processed, adapterCalls,
                   netCalls, sent, answer, polls, pollLog, raised, upVars, concVars, pureVars>>

\* (mutant) the "no pages found" branch is missing
ConversionRefusedOnlyOnRaise(raises, images) == raises

\* the PDF branch: a conversion that raises or yields no image ends the
\* request with HTTP 400 (main.py 117-148, 231-267)
ConversionRefused(raises, images) == raises \/ Len(images) = 0

\* lines 110-148, 224-267: a PDF becomes the PNG of its first page;
\* /ms-azure-ocr hands the upload on as it is (line 343)
Preprocess ==
    /\ pc = "Stored"
    /\ IF endpoint # "azure" /\ IsPdf(upload)
       THEN \E raises \in BOOLEAN, n \in 0..MaxPages :
              LET images == IF raises THEN <<>> ELSE convert_from_bytes(n, 1, 1)
              IN  /\ conv' = [raises |-> raises, pages |-> n, images |-> images,
                              done |-> TRUE]
                  /\ IF ConversionRefused(raises, images)
                     THEN /\ response' = HttpError(400, Fmt("Error converting PDF: ",
                                 IF raises THEN "PDFPageCountError"
                                 ELSE "Could not convert PDF to image (no pages found)"))
                          /\ pc' = "Done"
                          /\ UNCHANGED <<processed, files, stages>>
                     ELSE /\ processed' = [content |-> FirstImage(images),
                                           mime |-> "image/png"]
                          /\ files' = files \cup
                               {<<Stem(upload.filename),
                                  IF endpoint = "openai" THEN "_converted.png"
                                  ELSE "_mistral_converted.png">>}
                          /\ stages' = Append(stages, "preprocess")
                          /\ pc' = "Preprocessed"
                          /\ UNCHANGED response
       ELSE /\ processed' = [content |-> <<"upload">>, mime |-> upload.mime]
            /\ stages' = Append(stages, "preprocess")
            /\ pc' = "Preprocessed"
            /\ UNCHANGED <<conv, files, response>>
    /\ UNCHANGED <<endpoint, upload, cred, adapterCalls, netCalls, sent, answer,
                   polls, pollLog, raised, upVars, concVars, pureVars>>

MissingKey(ep) == IF ep = "openai" THEN OpenAIMissingKey ELSE MistralMissingKey
Answers(ep) == IF ep = "openai" THEN OpenAIAnswers ELSE MistralAnswers

\* openai_extract / mistral_extract is called: the key is checked, then the
\* one request is sent (openai_ocr.py 33-111, mistral_ocr.py 134-244)
CallAdapter ==
    /\ pc = "Preprocessed"
    /\ endpoint \in {"openai", "mistral"}
    /\ adapterCalls' = adapterCalls + 1
    /\ IF cred.key = <<>>
       THEN /\ raised' = Exc("ValueError", MissingKey(endpoint))
            /\ response' = TextEndpoint(endpoint, Raised(raised'))
            /\ stages' = Append(stages, "return")
            /\ pc' = "Done"
            /\ UNCHANGED <<netCalls, answer>>
       ELSE \E ans \in Answers(endpoint) :
            /\ answer' = ans
            /\ netCalls' = netCalls + 1
            /\ stages' = Append(stages, "provider")
            /\ pc' = "ProviderCalled"
            /\ UNCHANGED <<raised, response>>
    /\ UNCHANGED <<endpoint, upload, cred, files, conv, processed, sent, polls,
                   pollLog, upVars, concVars, pureVars>>

\* (mutant) a failed request is sent again
AfterAnswerRetry(ans) == IF ans.kind = "exception" THEN "Preprocessed" ELSE "Done"

\* Where the adapter goes once the request has been answered: on to the
\* answer's handling, whatever the answer; there is no loop around the
\* request (openai_ocr.py 89-116, mistral_ocr.py 239-250).
AfterAnswer(ans) == "Done"

\* the adapter works on the answer and the endpoint on what the adapter returns
AdapterReturn ==
    /\ pc = "ProviderCalled"
    /\ endpoint \in {"openai", "mistral"}
    /\ pc' = AfterAnswer(answer)
    /\ IF pc' = "Done"
       THEN \E now \in Times :
              LET ret == IF endpoint = "openai" THEN OpenAIAfterCall(answer)
                         ELSE MistralAfterCall(answer, now)
              IN  /\ response' = TextEndpoint(endpoint, ret)
                  /\ stages' = stages \o ret.stages \o <<"return">>
       ELSE UNCHANGED <<response, stages>>
    /\ UNCHANGED <<endpoint, upload, cred, files, conv, processed, adapterCalls,
                   netCalls, sent, answer, polls, pollLog, raised, upVars, concVars, pureVars>>

\* an exception raised inside the try block of the Azure adapter
AzureFails(e, now) ==
    /\ raised' = e
    /\ response' = AzureEndpoint(Raised(AzureExceptBlock(e)), now)
    /\ stages' = Append(stages, "return")
    /\ pc' = "Done"

\* azure_extract is called: the configuration is checked and the analysis
\* submitted (ms_azure_ocr.py 148-233)
AzureSubmit ==
    /\ pc = "Preprocessed"
    /\ endpoint = "azure"
    /\ adapterCalls' = adapterCalls + 1
    /\ \E now \in Times :
         LET cfg == AzureConfig(cred.key, cred.endpoint)
         IN  IF ~cfg.ok
             THEN /\ IF cfg.before
                     THEN /\ raised' = cfg.exc
                          /\ response' = AzureEndpoint(Raised(cfg.exc), now)
                          /\ stages' = Append(stages, "return")
                          /\ pc' = "Done"
                     ELSE AzureFails(cfg.exc, now)
                  /\ UNCHANGED <<netCalls, sent>>
             ELSE \E o \in SubmitOutcomes :
                  /\ netCalls' = netCalls + 1
                  /\ sent' = [key |-> cfg.key, url |-> cfg.url]
                  /\ IF o = "accepted"
                     THEN /\ stages' = Append(stages, "provider")
                          /\ pc' = "Polling"
                          /\ UNCHANGED <<raised, response>>
                     ELSE /\ raised' = SubmitError(o)
                          /\ response' = AzureEndpoint(
                                 Raised(AzureExceptBlock(SubmitError(o))), now)
                          /\ stages' = stages \o <<"provider", "return">>
                          /\ pc' = "Done"
    /\ UNCHANGED <<endpoint, upload, cred, files, conv, processed, answer, polls,
                   pollLog, upVars, concVars, pureVars>>

\* (mutant) the loop bound is off by one
AfterPollOffByOne(st, n) ==
    CASE st = "succeeded" -> [next |-> "Analyzed", exc |-> NoExc]
      [] st = "failed"    -> [next |-> "Done", exc |-> AnalysisFailed]
      [] st = "raises"    -> [next |-> "Done", exc |-> PollRaised]
      [] OTHER            -> IF n <= max_retries
                             THEN [next |-> "Polling", exc |-> NoExc]
                             ELSE [next |-> "Done", exc |-> TimedOut]

\* where the polling loop goes after a poll that returned status st, the
\* polls-th of the loop (ms_azure_ocr.py 244-263)
AfterPoll(st, n) ==
    CASE st = "succeeded" -> [next |-> "Analyzed", exc |-> NoExc]
      [] st = "failed"    -> [next |-> "Done", exc |-> AnalysisFailed]
      [] st = "raises"    -> [next |-> "Done", exc |-> PollRaised]
      [] OTHER            -> IF n < max_retries
                             THEN [next |-> "Polling", exc |-> NoExc]
                             ELSE [next |-> "Done", exc |-> TimedOut]

\* one pass of the polling loop
AzurePoll ==
    /\ pc = "Polling"
    /\ polls < max_retries
    /\ \E st \in PollOutcomes, now \in Times :
         LET step == AfterPoll(st, polls + 1)
         IN  /\ polls' = polls + 1
             /\ pollLog' = Append(pollLog, st)
             /\ IF step.next = "Done"
                THEN AzureFails(step.exc, now)
                ELSE /\ pc' = step.next
                     /\ UNCHANGED <<raised, response, stages>>
    /\ UNCHANGED <<endpoint, upload, cred, files, conv, processed, adapterCalls,
                   netCalls, sent, answer, upVars, concVars, pureVars>>

\* the analysis result is mapped, rendered and converted (ms_azure_ocr.py
\* 265-527, main.py 353-425)
AzureFinish ==
    /\ pc = "Analyzed"
    /\ \E result \in AzureResults, now \in Times :
         LET ret == AzureAfterPolling(result)
         IN  /\ response' = AzureEndpoint(ret, now)
             /\ raised' = IF ret.raises
                          THEN Exc("IndexError", "list index out of range") ELSE raised
             /\ stages' = stages \o ret.stages
                            \o (IF ret.raises THEN <<>> ELSE <<"normalize">>)
                            \o <<"return">>
    /\ pc' = "Done"
    /\ UNCHANGED <<endpoint, upload, cred, files, conv, processed, adapterCalls,
                   netCalls, sent, answer, polls, pollLog, upVars, concVars, pureVars>>

Next ==
    \/ ReadUpload
    \/ Preprocess
    \/ CallAdapter
    \/ AdapterReturn
    \/ AzureSubmit
    \/ AzurePoll
    \/ AzureFinish

Spec == Init /\ [][Next]_vars

----------------------------------------------------------------------------
(* example/mistral.py: extract_invoice_data_mistral (SpecUp) *)

\* the pipeline of main.py at rest, while another specification runs
PipeIdle ==
    /\ endpoint = "mistral"
    /\ upload = [size |-> 0, mime |-> "image/png", filename |-> "scan.png"]
    /\ cred = [key |-> <<>>, endpoint |-> <<>>]
    /\ pc = "Idle"
    /\ stages = <<>>
    /\ files = {}
    /\ conv = NoConv
    /\ processed = [content |-> <<>>, mime |-> ""]
    /\ adapterCalls = 0
    /\ netCalls = 0
    /\ sent = [key |-> <<>>, url |-> <<>>]
    /\ answer = Failure("none", "none", "")
    /\ polls = 0
    /\ pollLog = <<>>
    /\ raised = NoExc
    /\ response = NoResponse

\* the id the file store gives to the uploaded file, and ids it already holds
NewFileId == "invoice_document.pdf#new"
OldFileIds == {"old#1", "old#2"}

\* what the chat completion can answer
ChatAnswers == {"{json}", "prose"}

URaised(at) == [kind |-> "raised", at |-> at, text |-> ""]
UReturned(text) == [kind |-> "returned", at |-> "", text |-> text]
UNone == [kind |-> "none", at |-> "", text |-> ""]

InitUp ==
    /\ PipeIdle /\ ConcIdle /\ PureIdle
    /\ upc = "start"
    /\ uinput \in [content_type : MimeTypes \cup {"image/jpeg"}, key : BOOLEAN]
    /\ store \in SUBSET OldFileIds
    /\ uploaded = {}
    /\ deletes = {}
    /\ uresult = UNone

\* lines 26-34: the key check, then the choice of branch
UCheckKey ==
    /\ upc = "start"
    /\ IF ~uinput.key
       THEN upc' = "done" /\ uresult' = URaised("key")
       ELSE /\ upc' = IF uinput.content_type = "application/pdf" THEN "upload" ELSE "ocr"
            /\ UNCHANGED uresult
    /\ UNCHANGED <<uinput, store, uploaded, deletes, pipeVars, concVars, pureVars>>

\* lines 39-45: client.files.upload
UUpload ==
    /\ upc = "upload"
    /\ \E ok \in BOOLEAN :
         IF ok
         THEN /\ store' = store \cup {NewFileId}
              /\ uploaded' = uploaded \cup {NewFileId}
              /\ upc' = "signed_url"
              /\ UNCHANGED uresult
         ELSE /\ upc' = "done" /\ uresult' = URaised("files.upload")
              /\ UNCHANGED <<store, uploaded>>
    /\ UNCHANGED <<uinput, deletes, pipeVars, concVars, pureVars>>

\* line 48: client.files.get_signed_url
UGetSignedUrl ==
    /\ upc = "signed_url"
    /\ \E ok \in BOOLEAN :
         IF ok THEN upc' = "ocr" /\ UNCHANGED uresult
         ELSE upc' = "done" /\ uresult' = URaised("files.get_signed_url")
    /\ UNCHANGED <<uinput, store, uploaded, deletes, pipeVars, concVars, pureVars>>

\* lines 51-57 and 94-100: client.ocr.process
UOcrProcess ==
    /\ upc = "ocr"
    /\ \E ok \in BOOLEAN :
         IF ok THEN upc' = "chat" /\ UNCHANGED uresult
         ELSE upc' = "done" /\ uresult' = URaised("ocr.process")
    /\ UNCHANGED <<uinput, store, uploaded, deletes, pipeVars, concVars, pureVars>>

\* lines 60-79 and 103-124: client.chat.complete; the image branch then
\* returns the text (lines 127-129)
UChatComplete ==
    /\ upc = "chat"
    /\ \E ok \in BOOLEAN, text \in ChatAnswers :
         IF ~ok THEN upc' = "done" /\ uresult' = URaised("chat.complete")
         ELSE IF uinput.content_type = "application/pdf"
         THEN upc' = "delete" /\ uresult' = [UNone EXCEPT !.text = text]
         ELSE upc' = "done" /\ uresult' = UReturned(text)
    /\ UNCHANGED <<uinput, store, uploaded, deletes, pipeVars, concVars, pureVars>>

\* lines 82-85 and 127-129: client.files.delete inside try/except: pass, then
\* the return of the text
UDelete ==
    /\ upc = "delete"
    /\ deletes' = deletes \cup uploaded
    /\ \E ok \in BOOLEAN :
         store' = IF ok THEN store \ uploaded ELSE store
    /\ upc' = "done"
    /\ uresult' = UReturned(uresult.text)
    /\ UNCHANGED <<uinput, uploaded, pipeVars, concVars, pureVars>>

NextUp ==
    \/ UCheckKey
    \/ UUpload
    \/ UGetSignedUrl
    \/ UOcrProcess
    \/ UChatComplete
    \/ UDelete

SpecUp == InitUp /\ [][NextUp]_vars

----------------------------------------------------------------------------
(* Two concurrent requests (SpecConc): two uploads handled by main.py, or  *)
(* two runs of scripts/simple_llama_wrapper.py.                            *)

Procs == {1, 2}

\* writing a file, and removing one
Put(d, path, content) ==
    [x \in DOMAIN d \cup {path} |-> IF x = path THEN content ELSE d[x]]
Remove(d, path) == [x \in DOMAIN d \ {path} |-> d[x]]

\* main.py line 106: UPLOAD_FOLDER / file.filename
UploadPath(filename) == <<"uploads", filename>>

\* simple_llama_wrapper.py line 257: one path, whatever the input
script_path == <<"scripts", "temp_llama_script.py">>

\* lines 59-254: the generated script names the file it is to process
script_content(file_path) == <<"process_document", file_path>>

UploadRequests ==
    [kind : {"upload"}, name : {"a.png", "b.png"}, content : {<<"x">>, <<"y">>}]
WrapperRequests ==
    [kind : {"wrapper"}, name : {"a.pdf", "b.pdf"}, content : {<<>>}]

NoRead == [present |-> FALSE, script |-> <<>>]

InitConc ==
    /\ PipeIdle /\ UpIdle /\ PureIdle
    /\ cpc = [i \in Procs |-> "start"]
    /\ \/ creq \in [Procs -> UploadRequests]
       \/ creq \in [Procs -> WrapperRequests]
    /\ disk = <<>>
    /\ cread = [i \in Procs |-> NoRead]
    /\ cresult = [i \in Procs |-> <<"none">>]

\* main.py lines 99-108: the handler writes the upload under its own name
StoreUpload(i) ==
    /\ cpc[i] = "start" /\ creq[i].kind = "upload"
    /\ disk' = Put(disk, UploadPath(creq[i].name), creq[i].content)
    /\ cpc' = [cpc EXCEPT ![i] = "stored"]
    /\ UNCHANGED <<creq, cread, cresult, pipeVars, upVars, pureVars>>

\* main.py lines 114, 168-206: the adapter works on the bytes held in memory
RespondUpload(i) ==
    /\ cpc[i] = "stored"
    /\ cresult' = [cresult EXCEPT ![i] = <<"extracted">> \o creq[i].content]
    /\ cpc' = [cpc EXCEPT ![i] = "done"]
    /\ UNCHANGED <<creq, disk, cread, pipeVars, upVars, pureVars>>

\* simple_llama_wrapper.py lines 257-262: write the generated script
WriteScript(i) ==
    /\ cpc[i] = "start" /\ creq[i].kind = "wrapper"
    /\ disk' = Put(disk, script_path, script_content(creq[i].name))
    /\ cpc' = [cpc EXCEPT ![i] = "written"]
    /\ UNCHANGED <<creq, cread, cresult, pipeVars, upVars, pureVars>>

\* lines 265-271: subprocess.run; the interpreter reads whatever is at
\* script_path when it starts, and fails when nothing is there
RunScript(i) ==
    /\ cpc[i] = "written"
    /\ cread' = [cread EXCEPT ![i] =
                   IF script_path \in DOMAIN disk
                   THEN [present |-> TRUE, script |-> disk[script_path]]
                   ELSE NoRead]
    /\ cpc' = [cpc EXCEPT ![i] = "ran"]
    /\ UNCHANGED <<creq, disk, cresult, pipeVars, upVars, pureVars>>

\* line 274: os.path.exists(script_path)
ScriptExists(i) ==
    /\ cpc[i] = "ran"
    /\ cpc' = [cpc EXCEPT ![i] = IF script_path \in DOMAIN disk
                                 THEN "removing" ELSE "output"]
    /\ UNCHANGED <<creq, disk, cread, cresult, pipeVars, upVars, pureVars>>

\* line 275: os.remove(script_path); FileNotFoundError goes to the handler
\* of lines 290-296
RemoveScript(i) ==
    /\ cpc[i] = "removing"
    /\ IF script_path \in DOMAIN disk
       THEN /\ disk' = Remove(disk, script_path)
            /\ cpc' = [cpc EXCEPT ![i] = "output"]
            /\ UNCHANGED cresult
       ELSE /\ cresult' = [cresult EXCEPT ![i] =
                             <<"error", "Error running LlamaParse wrapper">>]
            /\ cpc' = [cpc EXCEPT ![i] = "done"]
            /\ UNCHANGED disk
    /\ UNCHANGED <<creq, cread, pipeVars, upVars, pureVars>>

\* lines 278-288: the subprocess's stdout, or an error when it failed
Output(i) ==
    /\ cpc[i] = "output"
    /\ cresult' = [cresult EXCEPT ![i] =
                     IF cread[i].present
                     THEN <<"parsed", cread[i].script[2]>>
                     ELSE <<"error", "Error in LlamaParse processing">>]
    /\ cpc' = [cpc EXCEPT ![i] = "done"]
    /\ UNCHANGED <<creq, disk, cread, pipeVars, upVars, pureVars>>

NextConc ==
    \/ \E i \in Procs : StoreUpload(i)
    \/ \E i \in Procs : RespondUpload(i)
    \/ \E i \in Procs : WriteScript(i)
    \/ \E i \in Procs : RunScript(i)
    \/ \E i \in Procs : ScriptExists(i)
    \/ \E i \in Procs : RemoveScript(i)
    \/ \E i \in Procs : Output(i)

SpecConc == InitConc /\ [][NextConc]_vars

----------------------------------------------------------------------------
(* Properties of one request (Spec) *)

Finished == pc = "Done"
Body == response.body

\* where a returned record carries an error text
TopError(b)  == "error" \in DOMAIN b
PMError(b)   == "processingMetadata" \in DOMAIN b /\ "error" \in DOMAIN b.processingMetadata.v
MetaError(b) == "metadata" \in DOMAIN b /\ "error" \in DOMAIN b.metadata.v
SignalsError(b) == TopError(b) \/ PMError(b) \/ MetaError(b)

StoreFailed == upload.size > 0 /\ <<upload.filename>> \notin files
ConversionFailed == conv.done /\ (conv.raises \/ conv.images = <<>>)

AdapterRaised == raised # NoExc
C2_AdapterExceptionBecomesErrorRecord ==
    (Finished /\ (AdapterRaised \/ answer.kind = "exception")) =>
        /\ response.kind = "record"
        /\ response.status = 200
        /\ SignalsError(Body)
        /\ (AdapterRaised /\ endpoint # "azure") =>
               (TopError(Body) /\ Mentions(Body.error, raised.msg))

C2_Witness ==
    /\ Finished /\ raised = Exc("ValueError", MistralMissingKey)
    /\ response.kind = "record" /\ TopError(Body)

\* C3: with the selected provider's credential not configured, the request
\* returns an error record whose processingMetadata.error mentions the
\* missing credential, and no network call is made to the provider.
CredentialMissing ==
    \/ cred.key = <<>>
    \/ endpoint = "azure" /\ cred.endpoint = <<>>
MissingCredentialText ==
    IF endpoint = "azure"
    THEN (IF cred.key = <<>> THEN AzureMissingKey ELSE AzureMissingEndpoint)
    ELSE MissingKey(endpoint)
C3_MissingCredentialInProcessingMetadata ==
    (Finished /\ adapterCalls = 1 /\ CredentialMissing) =>
        /\ response.kind = "record"
        /\ PMError(Body)
        /\ Mentions(Body.processingMetadata.v.error, MissingCredentialText)
        /\ netCalls = 0

\* C4: when the input is a PDF (by MIME type or by extension) and its
\* conversion raises or yields zero pages, the adapter is never called.
C4_NoAdapterCallAfterFailedConversion ==
    (IsPdf(upload) /\ ConversionFailed) => (adapterCalls = 0 /\ netCalls = 0)

C4_Witness ==
    /\ Finished /\ conv.done /\ ~conv.raises /\ conv.pages = 0
    /\ upload.mime = "image/png" /\ FileExt(upload.filename) = "pdf"
    /\ adapterCalls = 0

\* C6: the Azure adapter issues at most 10 polls and always stops polling;
\* it raises the timed-out error exactly when none of the polls returned
\* succeeded or failed, and never after a poll returned succeeded.
PollingOver == polls > 0 /\ pc # "Polling"
Returned_(st) == \E i \in 1..Len(pollLog) : pollLog[i] = st
C6_TimeoutIffNoTerminalStatus ==
    /\ polls <= max_retries
    /\ pc = "Polling" => polls < max_retries
    /\ PollingOver =>
          (raised = TimedOut <=> ~(Returned_("succeeded") \/ Returned_("failed")))
    /\ Returned_("succeeded") => raised # TimedOut

\* C6 as amended: at most 10 polls, polling always stops; the timed-out
\* error is raised exactly when all 10 polls returned a status other than
\* succeeded or failed (a poll that itself raises ends the polling with that
\* error instead), and never after a poll returned succeeded.
C6_TimeoutIffTenNonTerminalPolls ==
    /\ polls <= max_retries
    /\ pc = "Polling" => polls < max_retries
    /\ PollingOver =>
          (raised = TimedOut <=>
               /\ polls = max_retries
               /\ \A i \in 1..Len(pollLog) : pollLog[i] = "running")
    /\ Returned_("succeeded") => raised # TimedOut

C6_Witness ==
    /\ Finished /\ raised = TimedOut /\ polls = max_retries
    /\ response.kind = "record"

\* C7: within one request the provider's extraction call is issued at most
\* once, whatever its outcome.
C7_AtMostOneExtractionCall ==
    netCalls <= 1

C7_Witness ==
    /\ Finished /\ netCalls = 1 /\ answer.kind = "exception"
    /\ answer.exc.type = "Timeout" /\ response.kind = "record"

\* C9: the stages come in the order preprocess, provider call, extraction,
\* normalization, rendering, return: no provider call before preprocessing
\* has finished, and no success record returned that was not normalized and
\* then rendered.
Pos(st) == CHOOSE i \in 1..Len(stages) : stages[i] = st /\ \A j \in 1..(i-1) : stages[j] # st
Has(st) == \E i \in 1..Len(stages) : stages[i] = st
Before(a, b) == Has(a) /\ Has(b) /\ Pos(a) < Pos(b)
Success == Finished /\ response.kind = "record" /\ ~SignalsError(Body)
C9_StagesInOrder ==
    /\ Has("provider") => Before("preprocess", "provider")
    /\ Success =>
          /\ Before("provider", "normalize")
          /\ Before("normalize", "render")
          /\ Before("render", "return")

\* C10: in every response failure is signalled by processingMetadata.error
\* being present and success by its absence; a failed request never uses
\* another shape (a top-level error key, a documentInfo/metadata layout).
RequestFailed ==
    \/ AdapterRaised
    \/ answer.kind \notin {"none", "text"}
    \/ answer.kind = "text" /\ ~answer.decoded.ok
C10_FailureOnlyInProcessingMetadata ==
    (Finished /\ response.kind = "record") =>
        /\ RequestFailed <=> PMError(Body)
        /\ ~TopError(Body)
        /\ "documentInfo" \notin DOMAIN Body
        /\ "metadata" \notin DOMAIN Body

----------------------------------------------------------------------------
(* Properties of example/mistral.py (SpecUp) *)

\* C5: once a PDF has been uploaded to the provider's file store, a delete
\* is issued for the uploaded file before the extract call returns or raises,
\* on every exit path, a failing signed-URL, OCR or chat call included.
C5_UploadedFileDeletedOnEveryExit ==
    upc = "done" => uploaded \subseteq deletes

----------------------------------------------------------------------------
(* Properties of two concurrent requests (SpecConc) *)

\* what a request returns, and the file it leaves, when it runs alone
ResultAlone(r) ==
    IF r.kind = "upload" THEN <<"extracted">> \o r.content
    ELSE <<"parsed", r.name>>
LeavesAlone(r, d) ==
    IF r.kind = "upload"
    THEN UploadPath(r.name) \in DOMAIN d /\ d[UploadPath(r.name)] = r.content
    ELSE script_path \notin DOMAIN d

\* C8: under every interleaving of two requests, the result each one returns
\* and the files each one leaves behind are those it would produce when run
\* alone on its own input, two uploads with the same filename and two wrapper
\* runs that write their script to the same path included.
C8_ConcurrentRequestsIndependent ==
    (\A i \in Procs : cpc[i] = "done") =>
        \A i \in Procs : /\ cresult[i] = ResultAlone(creq[i])
                         /\ LeavesAlone(creq[i], disk)

----------------------------------------------------------------------------
(* Properties of the returned record (Spec) *)

PartyFields ==
    {"vendorName", "vendorAddress", "vendorContact", "clientName", "clientAddress"}
CanonicalFields ==
    PartyFields \cup
    {"invoiceNumber", "invoiceDate", "dueDate", "totalAmount", "subtotalAmount",
     "taxAmount", "currency", "lineItems", "handwrittenNotes", "confidenceScores",
     "processingMetadata", "markdownOutput", "additionalInfo"}

ReturnedRecord == Finished /\ response.kind = "record"

\* C11: every record produced by normalization, on the success path and on
\* every error path of every provider, contains every canonical top-level
\* field; no key is missing.
C11_EveryCanonicalFieldPresent ==
    ReturnedRecord => CanonicalFields \subseteq DOMAIN Body

DecodeFailed == answer.kind = "text" /\ ~answer.decoded.ok

\* C12: when the candidate text is not valid JSON, normalization does not
\* raise and returns an error record with processingMetadata.error set,
\* totalAmount 0 and lineItems the empty list.
C12_UndecodableGivesErrorRecord ==
    (Finished /\ DecodeFailed) =>
        /\ response.kind = "record"
        /\ raised = NoExc
        /\ PMError(Body)
        /\ "totalAmount" \in DOMAIN Body /\ Body.totalAmount = N(0)
        /\ "lineItems" \in DOMAIN Body /\ Body.lineItems = L(<<>>)

\* C13: when decoding the candidate text fails, the error record returned
\* to the caller retains a bounded excerpt of the offending raw text (the
\* rawText of the endpoints); the text is never dropped from the response.
RetainsRawText(b) == "rawText" \in DOMAIN b
C13_DecodeFailureKeepsRawText ==
    (Finished /\ DecodeFailed) =>
        (response.kind = "record" /\ RetainsRawText(Body))

\* C17: whenever the candidate decodes as JSON and vendorName, invoiceNumber
\* or totalAmount is missing from the decoded value, the record returned is
\* a success record in which a missing vendorName or invoiceNumber is
\* "Unknown" and a missing totalAmount is 0.
Decoded == answer.kind = "text" /\ answer.decoded.ok
MissingField(k) ==
    answer.decoded.val.t # "obj" \/ k \notin DOMAIN answer.decoded.val.v
DefaultedTo(k, value) ==
    MissingField(k) => (k \in DOMAIN Body /\ Body[k] = value)
C17_MissingRequiredFieldDefaulted ==
    (Finished /\ endpoint # "azure" /\ Decoded
       /\ \E k \in {"vendorName", "invoiceNumber", "totalAmount"} : MissingField(k)) =>
        /\ response.kind = "record"
        /\ ~SignalsError(Body)
        /\ DefaultedTo("vendorName", S("Unknown"))
        /\ DefaultedTo("invoiceNumber", S("Unknown"))
        /\ DefaultedTo("totalAmount", N(0))

\* C18: in every returned record vendorName, vendorAddress, vendorContact,
\* clientName, clientAddress and currency hold a string (the empty string
\* when unknown); none of them is null or absent.
StringFields == PartyFields \cup {"currency"}
C18_StringFieldsAreStrings ==
    ReturnedRecord =>
        \A k \in StringFields : k \in DOMAIN Body /\ Body[k].t = "str"

\* C19: every record returned to a caller carries a markdownOutput, and it
\* is the rendering of the record's own other fields.
WithoutMarkdown(b) == [k \in DOMAIN b \ {"markdownOutput"} |-> b[k]]
C19_MarkdownRendersOwnFields ==
    ReturnedRecord =>
        /\ "markdownOutput" \in DOMAIN Body
        /\ Body.markdownOutput = Markdown(WithoutMarkdown(Body))

(***************************************************************************)
(* The candidate extraction of the adapters (SpecText).                    *)
(* openai_ocr.py 141-166 and mistral_ocr.py 312-337 are the same code: the *)
(* provider's text is stripped, a candidate is selected from it with two   *)
(* regular expressions, and fences left at its ends are removed.  A text   *)
(* is a sequence of characters; "json" stands for the tag as one atom.     *)
(***************************************************************************)
MaxChunks == 5

\* the backtick, which a string of the module cannot hold
Tick == "tick"

Whitespace == {" "}
Backtick == {Tick}

\* the pieces the provider's text is made of
Chunks ==
    { <<"x">>, <<" ">>, <<Tick>>, <<Tick, Tick, Tick>>,
      <<Tick, Tick, Tick, "json">>, <<"{">>, <<"}">>, <<"{", "x", "}">> }

RECURSIVE TextsOf(_)
TextsOf(n) ==
    IF n = 0 THEN {<<>>}
    ELSE LET shorter == TextsOf(n - 1)
         IN  shorter \cup {t \o c : t \in shorter, c \in Chunks}

\* str.lstrip(chars), str.rstrip(chars), str.strip()
lstrip(t, chars) ==
    LET n == CHOOSE k \in 0..Len(t) :
                 /\ \A j \in 1..k : t[j] \in chars
                 /\ k = Len(t) \/ t[k + 1] \notin chars
    IN  SubSeq(t, n + 1, Len(t))

rstrip(t, chars) ==
    LET n == CHOOSE k \in 0..Len(t) :
                 /\ \A j \in (k + 1)..Len(t) : t[j] \in chars
                 /\ k = 0 \/ t[k] \notin chars
    IN  SubSeq(t, 1, n)

strip(t) == rstrip(lstrip(t, Whitespace), Whitespace)

\* the literal ``` of the pattern, at position i of t
FenceAt(t, i) ==
    /\ i >= 1 /\ i + 2 <= Len(t)
    /\ t[i] = Tick /\ t[i + 1] = Tick /\ t[i + 2] = Tick

startswith(t) == FenceAt(t, 1)
endswith(t) == FenceAt(t, Len(t) - 2)

\* \s* from position p: the lengths it can take
SpaceRuns(t, p) ==
    {w \in 0..(Len(t) + 1 - p) : \A k \in p..(p + w - 1) : t[k] \in Whitespace}

\* \s*``` from position e
ClosesAt(t, e) == \E w \in SpaceRuns(t, e) : FenceAt(t, e + w)

\* json_pattern = ```(?:json)?\s*([\s\S]*?)\s*``` , matched from position i:
\* every way <<tag, ws, group>> the pattern can match there, by the length
\* taken by (?:json)?, by the first \s* and by the group
json_pattern(t, i) ==
    IF ~FenceAt(t, i) THEN {}
    ELSE LET tags == IF i + 3 <= Len(t) /\ t[i + 3] = "json" THEN {0, 1} ELSE {0}
         IN  UNION { UNION { { <<tg, w, g>> :
                                 g \in {h \in 0..(Len(t) + 1 - (i + 3 + tg + w)) :
                                           ClosesAt(t, i + 3 + tg + w + h)} } :
                             w \in SpaceRuns(t, i + 3 + tg) } :
                     tg \in tags }

\* the same match with a greedy group, ([\s\S]*) : it runs to the last fence
GreedyGroup(t, i) ==
    LET ways == json_pattern(t, i)
        tg == CHOOSE a \in {m[1] : m \in ways} : \A m \in ways : m[1] <= a
        withTag == {m \in ways : m[1] = tg}
        w == CHOOSE a \in {m[2] : m \in withTag} : \A m \in withTag : m[2] <= a
        withWs == {m \in withTag : m[2] = w}
        g == CHOOSE a \in {m[3] : m \in withWs} : \A m \in withWs : m[3] <= a
    IN  SubSeq(t, i + 3 + tg + w, i + 3 + tg + w + g - 1)

\* the match the regex engine reports at i: (?:json)? and \s* are greedy,
\* the group is lazy, and the engine backtracks in that order
LazyGroup(t, i) ==
    LET ways == json_pattern(t, i)
        tg == CHOOSE a \in {m[1] : m \in ways} : \A m \in ways : m[1] <= a
        withTag == {m \in ways : m[1] = tg}
        w == CHOOSE a \in {m[2] : m \in withTag} : \A m \in withTag : m[2] <= a
        withWs == {m \in withTag : m[2] = w}
        g == CHOOSE a \in {m[3] : m \in withWs} : \A m \in withWs : a <= m[3]
    IN  SubSeq(t, i + 3 + tg + w, i + 3 + tg + w + g - 1)

\* re.findall(json_pattern, result), of which the code uses element [0] only:
\* the group of the leftmost match, or no match
json_matches(t) ==
    LET starts == {i \in 1..Len(t) : json_pattern(t, i) # {}}
        first == CHOOSE i \in starts : \A j \in starts : i <= j
    IN  IF starts = {} THEN <<>> ELSE <<LazyGroup(t, first)>>

\* brace_pattern = (\{[\s\S]*\}) matched from position i: the positions of
\* the closing brace
brace_pattern(t, i) ==
    IF t[i] = "{" THEN {e \in (i + 1)..Len(t) : t[e] = "}"} ELSE {}

\* the span with a lazy body, \{[\s\S]*?\} : it ends at the next brace
LazySpan(t, i) ==
    LET ends == brace_pattern(t, i)
    IN  SubSeq(t, i, CHOOSE e \in ends : \A f \in ends : e <= f)

\* the span the engine reports at i: [\s\S]* is greedy
GreedySpan(t, i) ==
    LET ends == brace_pattern(t, i)
    IN  SubSeq(t, i, CHOOSE e \in ends : \A f \in ends : f <= e)

\* re.findall(brace_pattern, result), element [0]
brace_matches(t) ==
    LET starts == {i \in 1..Len(t) : brace_pattern(t, i) # {}}
        first == CHOOSE i \in starts : \A j \in starts : i <= j
    IN  IF starts = {} THEN <<>> ELSE <<GreedySpan(t, first)>>

\* lines 147-160: the fenced block, else the brace span, else the text
Select(t) ==
    IF json_matches(t) # <<>> THEN strip(json_matches(t)[1])
    ELSE IF brace_matches(t) # <<>> THEN strip(brace_matches(t)[1])
    ELSE strip(t)

\* the cleanup without its second test
CleanupLeadingOnly(t) == IF startswith(t) THEN lstrip(t, Backtick) ELSE t

\* lines 163-166: the additional cleanup
Cleanup(t) ==
    LET left == IF startswith(t) THEN lstrip(t, Backtick) ELSE t
    IN  IF endswith(left) THEN rstrip(left, Backtick) ELSE left

InitText ==
    /\ PipeIdle /\ UpIdle /\ ConcIdle /\ LlamaIdle /\ ExIdle
    /\ rpc = "idle" /\ rdata = <<>> /\ rendered = [raises |-> FALSE, lines |-> <<>>]
    /\ tpc = "raw"
    /\ raw_content \in TextsOf(MaxChunks)
    /\ candidate = <<>>

\* result = raw_content.strip()
StripRaw ==
    /\ tpc = "raw"
    /\ candidate' = strip(raw_content)
    /\ tpc' = "stripped"
    /\ UNCHANGED <<raw_content, pipeVars, upVars, concVars, renderVars, llamaVars, exVars>>

\* result = json_matches[0].strip() / brace_matches[0].strip() / result.strip()
SelectCandidate ==
    /\ tpc = "stripped"
    /\ candidate' = Select(candidate)
    /\ tpc' = "selected"
    /\ UNCHANGED <<raw_content, pipeVars, upVars, concVars, renderVars, llamaVars, exVars>>

\* result.lstrip('`') and result.rstrip('`'); the result goes to json.loads
StripResidualFences ==
    /\ tpc = "selected"
    /\ candidate' = Cleanup(candidate)
    /\ tpc' = "decoding"
    /\ UNCHANGED <<raw_content, pipeVars, upVars, concVars, renderVars, llamaVars, exVars>>

NextText ==
    \/ StripRaw
    \/ SelectCandidate
    \/ StripResidualFences

SpecText == InitText /\ [][NextText]_vars

(***************************************************************************)
(* Properties of the candidate extraction (SpecText).                      *)
(***************************************************************************)
Selected == tpc \in {"selected", "decoding"}

\* a fenced block: a fence and a later fence that does not overlap it
Fences(t) == {i \in 1..Len(t) : FenceAt(t, i)}
Openers(t) == LET f == Fences(t) IN {i \in f : \E j \in f : j >= i + 3}
HasFencedBlock(t) == Openers(t) # {}

Least(s) == CHOOSE i \in s : \A j \in s : i <= j

\* what stands between the first block's opening fence, with its tag if it
\* has one, and the next fence
FirstBlockInner(t) ==
    LET open == Least(Openers(t))
        from == IF t[open + 3] = "json" THEN open + 4 ELSE open + 3
        close == Least({j \in Fences(t) : j >= from})
    IN  SubSeq(t, from, close - 1)

\* C14: when the provider's text contains a fenced code block, the candidate
\* is the inner content of the first such block with the surrounding
\* whitespace removed, whatever prose or {...} span stands before or after it
C14_FirstFencedBlockIsCandidate ==
    (Selected /\ HasFencedBlock(raw_content)) =>
        candidate = strip(FirstBlockInner(raw_content))

\* prose, a fenced {x}, prose: the candidate is exactly {x}
C14_FencedBetweenProse ==
    /\ tpc = "decoding"
    /\ raw_content = <<"x", Tick, Tick, Tick, "json", "{", "x", "}", Tick, Tick, Tick, "x">>
    /\ candidate = <<"{", "x", "}">>

FirstOpen(t) == CHOOSE i \in 1..Len(t) : t[i] = "{" /\ \A j \in 1..(i - 1) : t[j] # "{"
LastClose(t) == CHOOSE i \in 1..Len(t) : t[i] = "}" /\ \A j \in (i + 1)..Len(t) : t[j] # "}"
HasBraceSpan(t) ==
    /\ \E i \in 1..Len(t) : t[i] = "{"
    /\ \E i \in 1..Len(t) : t[i] = "}"
    /\ FirstOpen(t) < LastClose(t)

C16_NoFenceAtCandidateEnds ==
    tpc = "decoding" => (~startswith(candidate) /\ ~endswith(candidate))

\* an answer cut off inside its block: the unclosed fence is removed
C16_ResidualFencesRemoved ==
    /\ tpc = "decoding"
    /\ raw_content = <<" ", Tick, Tick, Tick, "json", " ", "{", "x">>
    /\ candidate = <<"json", " ", "{", "x">>

(***************************************************************************)
(* Calls of the report renderer (SpecRender): the records the Mistral      *)
(* adapter passes to generate_markdown_from_extraction, which are the      *)
(* standardized record of a decoded object (mistral_ocr.py 402) and the    *)
(* adapter's error records (303, 444, 485, 525, 566).                      *)
(***************************************************************************)
RenderKeys ==
    {"vendorName", "invoiceDate", "dueDate", "totalAmount", "lineItems",
     "handwrittenNotes"}

\* values the provider's JSON can give to these keys
RenderValues ==
    [vendorName : {S("Acme"), S(""), None},
     invoiceDate : {Text(<<"2024", "-", "01", "-", "15", "T", "00:00">>),
                    Text(<<"2024", "-", "01", "-", "15">>), None},
     dueDate : {Text(<<"2024", "-", "01", "-", "15">>), S("")},
     totalAmount : {N(100), None},
     lineItems : {L(<<>>), L(<<O([description |-> S("Pen"), quantity |-> N(2)])>>),
                  L(<<S("Pen")>>), L(<<None>>), N(3)},
     handwrittenNotes : {L(<<O([text |-> S("paid")])>>), L(<<S("paid")>>)}]

\* parsed_json: an object with some of the keys
ParsedObjects ==
    {[k \in keys |-> val[k]] : keys \in SUBSET RenderKeys, val \in RenderValues}

RenderErrors == {S("Mistral JSON decode error"), S("Mistral API error")}

\* the argument of each call
RenderCalls ==
    {MistralStandard(RequiredDefaults(parsed), now) :
         parsed \in ParsedObjects, now \in Times}
    \cup {WithoutMarkdown(MistralErrorRecord(err, now)) :
         err \in RenderErrors, now \in Times}

NotRendered == [raises |-> FALSE, lines |-> <<>>]

InitRender ==
    /\ PipeIdle /\ UpIdle /\ ConcIdle /\ LlamaIdle /\ ExIdle
    /\ tpc = "idle" /\ raw_content = <<>> /\ candidate = <<>>
    /\ rpc = "call"
    /\ rdata \in RenderCalls
    /\ rendered = NotRendered

\* markdown_output = generate_markdown_from_extraction(...)
Render ==
    /\ rpc = "call"
    /\ rendered' = IF RenderRaises(rdata)
                   THEN [raises |-> TRUE, lines |-> <<>>]
                   ELSE [raises |-> FALSE,
                         lines |-> generate_markdown_from_extraction(rdata)]
    /\ rpc' = "done"
    /\ UNCHANGED <<rdata, pipeVars, upVars, concVars, textVars, llamaVars, exVars>>

NextRender == Render

SpecRender == InitRender /\ [][NextRender]_vars

\* C20: the report renderer is total: it returns a string for every record
\* the pipeline passes to it, records whose lineItems or handwrittenNotes
\* entries are no objects or whose scalar fields are null included; it never
\* raises
C20_RendererNeverRaises ==
    rpc = "done" => ~rendered.raises

RenderedLines == rpc = "done" /\ ~rendered.raises
HasLine(label, value) ==
    \E i \in 1..Len(rendered.lines) : rendered.lines[i] = <<label>> \o value

DateLabel ==
    [invoiceDate |-> "- **Invoice Date**: ", dueDate |-> "- **Due Date**: "]
GivenAsDay(data, k) ==
    k \in DOMAIN data /\ data[k] = Text(<<"2024", "-", "01", "-", "15">>)

\* C21: in the Invoice Details section the renderer displays every
\* invoiceDate and dueDate given as YYYY-MM-DD in the form YYYY/MM/DD
C21_DayShownWithSlashes ==
    RenderedLines =>
        \A k \in DOMAIN DateLabel :
            GivenAsDay(rdata, k) =>
                HasLine(DateLabel[k], <<"2024", "/", "01", "/", "15">>)

ScalarLabel ==
    [vendorName |-> "- **Vendor Name**: ",
     vendorAddress |-> "- **Vendor Address**: ",
     vendorContact |-> "- **Vendor Contact**: ",
     invoiceNumber |-> "- **Invoice Number**: ",
     invoiceDate |-> "- **Invoice Date**: ",
     dueDate |-> "- **Due Date**: ",
     subtotalAmount |-> "- **Subtotal**: ",
     taxAmount |-> "- **Tax**: ",
     discountAmount |-> "- **Discount**: ",
     totalAmount |-> "- **Total**: "]
MissingScalar(data, k) ==
    \/ k \notin DOMAIN data
    \/ data[k].t = "null"
    \/ data[k].t = "str" /\ data[k].v = <<>>

\* C22: every scalar the renderer prints that is missing from the record,
\* its key absent, null or the empty string, is rendered as the literal N/A
C22_MissingScalarShownAsNA ==
    RenderedLines =>
        \A k \in DOMAIN ScalarLabel :
            MissingScalar(rdata, k) => HasLine(ScalarLabel[k], <<"N/A">>)

(***************************************************************************)
(* Further properties of the returned record (Spec).                       *)
(***************************************************************************)
AnswerNormalized == Finished /\ endpoint \in {"openai", "mistral"} /\ netCalls > 0
NormalizedAt(now) ==
    TextEndpoint(endpoint, IF endpoint = "openai" THEN OpenAIAfterCall(answer)
                           ELSE MistralAfterCall(answer, now))

\* C23: normalization is deterministic: the record returned for a provider
\* answer is the record that normalizing the same answer gives at any other
\* time, equal in every field
C23_NormalizationDeterministic ==
    AnswerNormalized => \A now \in Times : response = NormalizedAt(now)

AmountFields == {"totalAmount", "subtotalAmount", "taxAmount"}

\* C24: in every returned record totalAmount, subtotalAmount and taxAmount
\* are non-negative numbers: a negative amount reported by the provider is
\* replaced by 0
C24_AmountsNonNegative ==
    ReturnedRecord =>
        \A k \in AmountFields :
            k \in DOMAIN Body => (Body[k].t = "num" /\ Body[k].v >= 0)

GivenPricedItem ==
    /\ Decoded /\ answer.decoded.val.t = "obj"
    /\ "lineItems" \in DOMAIN answer.decoded.val.v
    /\ answer.decoded.val.v.lineItems = PricedInvoice.lineItems

\* C25: a line item given with unitPrice "$1,234.50" has a number as its
\* unitPrice in the returned record, on every provider path
C25_PriceStringBecomesNumber ==
    (ReturnedRecord /\ endpoint # "azure" /\ GivenPricedItem) =>
        /\ "lineItems" \in DOMAIN Body
        /\ Body.lineItems.t = "list" /\ Len(Body.lineItems.v) = 1
        /\ Body.lineItems.v[1].v.unitPrice.t = "num"

Converted == endpoint # "azure" /\ IsPdf(upload) /\ conv.done

FailedInTry ==
    /\ Finished /\ endpoint = "azure" /\ raised # NoExc
    /\ raised.msg \notin {AzureMissingKey, AzureMissingEndpoint}

\* C27: when a step inside the Azure adapter's try block fails, the adapter
\* does not raise: it returns a one-element list with status "error", an
\* error message and a markdownOutput, so that the endpoint answers with the
\* conversion of that element
C27_AzureFailureReturnsErrorList ==
    FailedInTry =>
        /\ response.kind = "record"
        /\ "vendorName" \in DOMAIN Body
        /\ Body.vendorName = S("Error processing document")
        /\ "markdownOutput" \in DOMAIN Body

Urls == {"http://", "https://"}
ConfiguredKey == IF StartsWith(cred.key, Urls) THEN cred.endpoint ELSE cred.key
ConfiguredUrl == IF StartsWith(cred.key, Urls) THEN cred.key ELSE cred.endpoint
WithSlash(u) == IF EndsWithSlash(u) THEN u ELSE u \o <<"/">>
AzureSent == endpoint = "azure" /\ netCalls > 0

\* C29: whenever the Azure adapter sends a request, the subscription key it
\* sends is exactly the configured non-URL value, and the analyze URL is built
\* from the configured URL with one '/' added if it had none, also when the
\* key and the endpoint were configured in each other's place
C29_SentKeyAndEndpointAsConfigured ==
    AzureSent =>
        /\ sent.key = ConfiguredKey
        /\ sent.url = WithSlash(ConfiguredUrl)
                        \o <<"documentintelligence/documentModels/prebuilt-invoice:analyze">>

(***************************************************************************)
(* process_document of attached_assets/llama_parse.py (SpecLlama): the     *)
(* temporary file it creates with NamedTemporaryFile(delete=False) and     *)
(* what becomes of it.                                                     *)
(***************************************************************************)
Sources == {"pdf bytes", "png bytes", "jpeg bytes", "other bytes", "url", "path"}
IsBytes(src) == src \in {"pdf bytes", "png bytes", "jpeg bytes", "other bytes"}
NewTemp == "tmp1"
OldTemps == {"tmp0"}

InitLlama ==
    /\ PipeIdle /\ UpIdle /\ ConcIdle /\ ExIdle
    /\ tpc = "idle" /\ raw_content = <<>> /\ candidate = <<>>
    /\ rpc = "idle" /\ rdata = <<>> /\ rendered = [raises |-> FALSE, lines |-> <<>>]
    /\ lpc = "start"
    /\ source \in Sources
    /\ api_keys \in [llama : BOOLEAN, openai : BOOLEAN]
    /\ tempdir \in SUBSET OldTemps
    /\ temp_file_path = <<>>
    /\ originals = {}
    /\ lresult = "none"

\* the checks of the two API keys, before the try block
LCheckKeys ==
    /\ lpc = "start"
    /\ IF ~api_keys.llama \/ ~api_keys.openai
       THEN lpc' = "returned" /\ lresult' = "error: key required"
       ELSE lpc' = "tempfile" /\ UNCHANGED lresult
    /\ UNCHANGED <<source, api_keys, tempdir, temp_file_path, originals,
                   pipeVars, upVars, concVars, textVars, renderVars, exVars>>

\* with tempfile.NamedTemporaryFile(delete=False, suffix=...) as temp_file
LOpenTemp ==
    /\ lpc = "tempfile"
    /\ tempdir' = tempdir \cup {NewTemp}
    /\ lpc' = "fill"
    /\ UNCHANGED <<source, api_keys, temp_file_path, originals, lresult,
                   pipeVars, upVars, concVars, textVars, renderVars, exVars>>

\* the body of the with block: the source is written to the file and
\* temp_file_path is bound, or the function returns or raises before that
LFill ==
    /\ lpc = "fill"
    /\ \E download \in {"200", "404", "raises"} :
         IF IsBytes(source) \/ (source = "url" /\ download = "200")
         THEN /\ temp_file_path' = <<NewTemp>>
              /\ lpc' = "parse"
              /\ UNCHANGED lresult
         ELSE /\ lresult' = IF source = "path"
                            THEN "error: Invalid source format"
                            ELSE IF download = "404"
                            THEN "error: Failed to download file from URL"
                            ELSE "error: Unexpected error"
              /\ lpc' = "cleanup"
              /\ UNCHANGED temp_file_path
    /\ UNCHANGED <<source, api_keys, tempdir, originals,
                   pipeVars, upVars, concVars, textVars, renderVars, exVars>>

\* parser.load_data and the conversions, then the inner finally that copies
\* the file to uploads/original (upload_dir is bound only once the content
\* has been parsed; the copy's own errors are swallowed)
LParse ==
    /\ lpc = "parse"
    /\ \E parsed \in {"markdown", "no content", "raises"}, copied \in BOOLEAN :
         /\ lresult' = IF parsed = "markdown" THEN "success"
                       ELSE "error: Error processing with LlamaParse"
         /\ originals' = IF parsed = "markdown" /\ copied
                         THEN originals \cup {temp_file_path[1]} ELSE originals
    /\ lpc' = "cleanup"
    /\ UNCHANGED <<source, api_keys, tempdir, temp_file_path,
                   pipeVars, upVars, concVars, textVars, renderVars, exVars>>

\* the outer finally: os.unlink(temp_file_path) if the name is bound and
\* the file exists
LCleanup ==
    /\ lpc = "cleanup"
    /\ tempdir' = IF temp_file_path # <<>> /\ temp_file_path[1] \in tempdir
                  THEN tempdir \ {temp_file_path[1]} ELSE tempdir
    /\ lpc' = "returned"
    /\ UNCHANGED <<source, api_keys, temp_file_path, originals, lresult,
                   pipeVars, upVars, concVars, textVars, renderVars, exVars>>

NextLlama ==
    \/ LCheckKeys
    \/ LOpenTemp
    \/ LFill
    \/ LParse
    \/ LCleanup

SpecLlama == InitLlama /\ [][NextLlama]_vars

\* C28: every temporary file that process_document creates has been deleted
\* by the time it returns, on every path: success, parse failure, a failed
\* URL download, and a source that is neither bytes nor a URL
C28_TempFileDeletedOnReturn ==
    lpc = "returned" => tempdir \subseteq OldTemps

\* ------------------------------------------------------------------------
\* The example server (src/example/main.py): three endpoints that read the
\* upload, store it under origin/, and hand it to a provider
\* ------------------------------------------------------------------------

Routes == {"/ms-azure-extract-invoice/", "/openai-extract-invoice", "/mistral-extract-invoice"}

\* an exception travelling to the handlers at the end of an endpoint
HTTPException(status, detail) == [http |-> TRUE, status |-> status, detail |-> detail]
OtherException(detail) == [http |-> FALSE, status |-> 0, detail |-> detail]

\* the except clauses that close each endpoint: process_invoice has only
\* except Exception, which also catches an HTTPException; the two others
\* re-raise an HTTPException first
Handlers(r, exc) ==
    IF r # "/ms-azure-extract-invoice/" /\ exc.http
    THEN HttpError(exc.status, exc.detail)
    ELSE HttpError(500, exc.detail)

InitEx ==
    /\ PipeIdle /\ UpIdle /\ ConcIdle
    /\ tpc = "idle" /\ raw_content = <<>> /\ candidate = <<>>
    /\ rpc = "idle" /\ rdata = <<>> /\ rendered = [raises |-> FALSE, lines |-> <<>>]
    /\ LlamaIdle
    /\ xpc = "received"
    /\ route \in Routes
    /\ file \in [size : {0, 1}, mime : MimeTypes, filename : Filenames]
    /\ origin_folder = {}
    /\ provider_calls = 0
    /\ xresponse = NoResponse

\* file.read(), the empty check, and the write under origin/
ExStore ==
    /\ xpc = "received"
    /\ IF file.size = 0
       THEN /\ xresponse' = Handlers(route, HTTPException(400, "empty file"))
            /\ xpc' = "done"
            /\ UNCHANGED origin_folder
       ELSE \E written \in BOOLEAN :
               IF written
               THEN /\ origin_folder' = origin_folder \cup {<<file.filename>>}
                    /\ xpc' = "stored"
                    /\ UNCHANGED xresponse
               ELSE /\ xresponse' = Handlers(route, OtherException("OSError"))
                    /\ xpc' = "done"
                    /\ UNCHANGED origin_folder
    /\ UNCHANGED <<route, file, provider_calls,
                   pipeVars, upVars, concVars, textVars, renderVars, llamaVars>>

\* extract_invoice and extract_invoice_mistral: a PDF is converted to the
\* image of its first page, which is also written under origin/; any
\* failure of the conversion answers 400
ExConvert ==
    /\ xpc = "stored"
    /\ route # "/ms-azure-extract-invoice/"
    /\ IF IsPdf(file)
       THEN \E outcome \in {"image", "no pages", "raises"} :
               IF outcome = "image"
               THEN /\ origin_folder' = origin_folder \cup
                                          {<<Stem(file.filename), "_converted.png">>}
                    /\ xpc' = "ready"
                    /\ UNCHANGED xresponse
               ELSE /\ xresponse' = Handlers(route, HTTPException(400, outcome))
                    /\ xpc' = "done"
                    /\ UNCHANGED origin_folder
       ELSE /\ xpc' = "ready"
            /\ UNCHANGED <<origin_folder, xresponse>>
    /\ UNCHANGED <<route, file, provider_calls,
                   pipeVars, upVars, concVars, textVars, renderVars, llamaVars>>

\* the provider call (intel_main, extract_invoice_data or
\* extract_invoice_data_mistral) and the answer built from what it returns
ExExtract ==
    /\ \/ xpc = "ready"
       \/ xpc = "stored" /\ route = "/ms-azure-extract-invoice/"
    /\ provider_calls' = provider_calls + 1
    /\ \E outcome \in {"json", "text", "raises"} :
          xresponse' = IF outcome = "raises"
                       THEN Handlers(route, OtherException("provider"))
                       ELSE Json(outcome)
    /\ xpc' = "done"
    /\ UNCHANGED <<route, file, origin_folder,
                   pipeVars, upVars, concVars, textVars, renderVars, llamaVars>>

NextEx ==
    \/ ExStore
    \/ ExConvert
    \/ ExExtract

SpecEx == InitEx /\ [][NextEx]_vars

\* C30: an upload of zero bytes is rejected with HTTP 400 on every
\* processing endpoint of both servers, before anything is written to disk
\* and before any provider is called
C30_EmptyUploadRejectedWith400 ==
    /\ (Finished /\ upload.size = 0) =>
          /\ response.kind = "http" /\ response.status = 400
          /\ files = {} /\ adapterCalls = 0 /\ netCalls = 0
    /\ (xpc = "done" /\ file.size = 0) =>
          /\ xresponse.kind = "http" /\ xresponse.status = 400
          /\ origin_folder = {} /\ provider_calls = 0

====
